---- MODULE Spec2Model ----
(***************************************************************************)
(* Model of pessham/camp-participator:                                     *)
(*   scripts/fetch_icons.py   -- the icon fetcher                          *)
(*   scripts/export_public.py -- the publisher (CSV / Markdown / HTML)     *)
(*                                                                         *)
(* A Python str is modelled as a sequence of one-character strings, so     *)
(* that strip(), lower(), split(), startswith(), re.sub() and re.search()  *)
(* are computed character by character as the library does.  TLA+ strings  *)
(* are ASCII only; the Japanese column names, tokens and display names of  *)
(* the source are written in romaji, with the original in a comment.       *)
(***************************************************************************)
EXTENDS Integers, Sequences, FiniteSets, TLC

VARIABLES
    hIn,        \* extract_handle: the argument x_url
    hOut,       \* extract_handle: the returned handle
    hDone,      \* extract_handle has returned
    inExists,   \* data/participants_template.csv exists
    fieldnames, \* its header row, as csv.DictReader reads it
    roster,     \* its rows, as csv.DictReader yields them: column -> value
    files,      \* the other files of the working directory: path -> bytes
    fRun,       \* fetcher: number of the current invocation of main (0: none yet)
    fForce,     \* fetcher: main's local `force` in the current invocation
    fIdx,       \* fetcher: index of the row the for loop is at
    fPc,        \* fetcher: "idle" | "row" | "dl" | "ret"
    dl,         \* fetcher: the download_first call in progress or just returned
    fHist,      \* history of the invocations: forced / failed / requested
    pPc,        \* publisher: "start" | "exit"
    pExit,      \* publisher: the exit status of main
    outCsv,     \* data/public/participants_public.csv
    outMd,      \* the Markdown roster (OUT_MD)
    outHtml,    \* docs/index.html: the cards of the gallery
    docsIcons,  \* the file names copied into docs/assets/icons
    img         \* browser: the img element of one card of docs/index.html

handleVars == <<hIn, hOut, hDone>>
csvVars == <<inExists, fieldnames, roster>>
fetchVars == <<fRun, fForce, fIdx, fPc, dl, fHist>>
pubVars == <<pPc, pExit, outCsv, outMd, outHtml, docsIcons>>

vars == <<hIn, hOut, hDone, inExists, fieldnames, roster, files,
          fRun, fForce, fIdx, fPc, dl, fHist,
          pPc, pExit, outCsv, outMd, outHtml, docsIcons, img>>

(***************************************************************************)
(* Python values                                                           *)
(***************************************************************************)
\* None, as DictReader gives for a short row and dict.get for a missing key.
\* It is a one-element sequence holding a token that is no character.
None == <<"None">>

\* Python's `v or ""`
OrEmpty(v) == IF v = None THEN <<>> ELSE v

\* str.isspace() over the characters the inputs use
IsSpace(c) == c \in {" ", "\t", "\n", "\r"}

UpperChars == <<"A","B","C","D","E","F","G","H","I","J","K","L","M",
                "N","O","P","Q","R","S","T","U","V","W","X","Y","Z">>
LowerChars == <<"a","b","c","d","e","f","g","h","i","j","k","l","m",
                "n","o","p","q","r","s","t","u","v","w","x","y","z">>
Digits == {"0","1","2","3","4","5","6","7","8","9"}
Letters == {UpperChars[i] : i \in 1..26} \cup {LowerChars[i] : i \in 1..26}

\* the class [A-Za-z0-9_]
WordChars == Letters \cup Digits \cup {"_"}

LowerChar(c) ==
    IF \E i \in 1..26 : UpperChars[i] = c
    THEN LowerChars[CHOOSE i \in 1..26 : UpperChars[i] = c]
    ELSE c

\* str.lower()
Lower(s) == [i \in 1..Len(s) |-> LowerChar(s[i])]

RECURSIVE LStripSet(_, _)
LStripSet(s, cs) ==
    IF s # <<>> /\ Head(s) \in cs THEN LStripSet(Tail(s), cs) ELSE s

RECURSIVE RStripSet(_, _)
RStripSet(s, cs) ==
    IF s # <<>> /\ s[Len(s)] \in cs
    THEN RStripSet(SubSeq(s, 1, Len(s) - 1), cs) ELSE s

\* str.strip(chars)
StripSet(s, cs) == RStripSet(LStripSet(s, cs), cs)

\* str.strip()
Strip(s) == StripSet(s, {" ", "\t", "\n", "\r"})

\* str.startswith(p)
StartsWith(s, p) == Len(s) >= Len(p) /\ SubSeq(s, 1, Len(p)) = p

\* str.find(c) for a one-character c, 1-based; 0 when absent
FindChar(s, cs) ==
    IF \E i \in 1..Len(s) : s[i] \in cs
    THEN CHOOSE i \in 1..Len(s) : s[i] \in cs /\ \A j \in 1..(i-1) : s[j] \notin cs
    ELSE 0

\* s.split(c)[0]
SplitFirst(s, c) ==
    LET i == FindChar(s, {c}) IN IF i = 0 THEN s ELSE SubSeq(s, 1, i - 1)

\* str.replace(c, "") for every c of cs
RemoveChars(s, cs) == SelectSeq(s, LAMBDA c : c \notin cs)

(***************************************************************************)
(* urllib.parse.urlsplit, as far as extract_handle reads it: the path, or  *)
(* the ValueError of an unbalanced bracket in the network location.        *)
(***************************************************************************)
SchemeChars == Letters \cup Digits \cup {"+", "-", "."}

\* the scheme test: a ":" after a first letter and scheme characters only
HasScheme(url) ==
    /\ FindChar(url, {":"}) > 1
    /\ url[1] \in Letters
    /\ \A k \in 1..(FindChar(url, {":"}) - 1) : url[k] \in SchemeChars

\* the network location holds one of "[" and "]" without the other
Unbalanced(netloc) ==
    (\E k \in 1..Len(netloc) : netloc[k] = "[")
        # (\E k \in 1..Len(netloc) : netloc[k] = "]")

\* the fragment and the query are cut off
PathOf(url) == SplitFirst(SplitFirst(url, "#"), "?")

\* rest follows the "//": the network location ends at the first of / ? #
SplitNetloc(rest, delim) ==
    IF delim = 0
    THEN [error |-> Unbalanced(rest), path |-> <<>>]
    ELSE [error |-> Unbalanced(SubSeq(rest, 1, delim - 1)),
          path |-> PathOf(SubSeq(rest, delim, Len(rest)))]

AfterScheme(url) ==
    IF StartsWith(url, <<"/", "/">>)
    THEN SplitNetloc(SubSeq(url, 3, Len(url)),
                     FindChar(SubSeq(url, 3, Len(url)), {"/", "?", "#"}))
    ELSE [error |-> FALSE, path |-> PathOf(url)]

SplitScheme(url) ==
    IF HasScheme(url)
    THEN AfterScheme(SubSeq(url, FindChar(url, {":"}) + 1, Len(url)))
    ELSE AfterScheme(url)

urlsplit(url0) ==
    SplitScheme(RemoveChars(LStripSet(url0, {" ", "\t", "\n", "\r"}), {"\t", "\r", "\n"}))

(***************************************************************************)
(* fetch_icons.extract_handle                                              *)
(***************************************************************************)
HTTP == <<"h", "t", "t", "p">>

\* re.sub(r"[^A-Za-z0-9_]+", "", s)
ReSubNonWord(s) == SelectSeq(s, LAMBDA c : c \in WordChars)

\* path.strip("/").split("/")[0], then .split("?")[0]
FirstSegment(path) == SplitFirst(SplitFirst(StripSet(path, {"/"}), "/"), "?")

\* lines 22-33, of what urlsplit gives
HandleOfParts(parts) ==
    IF parts.error THEN <<>>
    ELSE IF parts.path = <<>> THEN <<>>
    ELSE FirstSegment(parts.path)

\* Variant: the first path segment is not cut off (line 28 without split("/")[0]).
HandleOfStripped_whole_path(u) ==
    IF StartsWith(u, <<"@">>) THEN Tail(u)
    ELSE IF StartsWith(u, HTTP)
         THEN IF urlsplit(u).error THEN <<>>
              ELSE SplitFirst(StripSet(urlsplit(u).path, {"/"}), "?")
         ELSE ReSubNonWord(u)

\* lines 18-35, of the stripped argument
HandleOfStripped(u) ==
    IF StartsWith(u, <<"@">>) THEN Tail(u)
    ELSE IF StartsWith(u, HTTP) THEN HandleOfParts(urlsplit(u))
    ELSE ReSubNonWord(u)

\* Variant of extract_handle, over HandleOfStripped_whole_path.
extract_handle_whole_path(x_url) ==
    IF OrEmpty(x_url) = <<>> THEN <<>> ELSE HandleOfStripped_whole_path(Strip(x_url))

\* lines 14-35
extract_handle(x_url) ==
    IF OrEmpty(x_url) = <<>> THEN <<>> ELSE HandleOfStripped(Strip(x_url))

(***************************************************************************)
(* scripts/fetch_icons.py: the icon fetcher                                *)
(***************************************************************************)
COL_X == "X-account-URL"       \* the column "XアカウントURL"
COL_SNS == "SNS-links"         \* the column "SNSリンク"

\* dict.get(k): None for a key the row does not hold
Get(row, k) == IF k \in DOMAIN row THEN row[k] ELSE None

\* OUT_DIR and os.path.join(OUT_DIR, f"{handle}.jpg")
OUT_DIR == <<"a","s","s","e","t","s","/","i","c","o","n","s">>
IconPath(handle) == OUT_DIR \o <<"/">> \o handle \o <<".","j","p","g">>

\* the longest prefix of s of characters of cls
RECURSIVE TakeWhile(_, _)
TakeWhile(s, cls) ==
    IF s # <<>> /\ Head(s) \in cls
    THEN <<Head(s)>> \o TakeWhile(Tail(s), cls)
    ELSE <<>>

\* the places where lit, followed by a character of cls, starts in s
Matches(s, lit, cls) ==
    {i \in 1..(Len(s) - Len(lit)) :
        SubSeq(s, i, i + Len(lit) - 1) = lit /\ s[i + Len(lit)] \in cls}

\* re.search(lit + "([cls]+)", s): group 1 of the leftmost match, greedy;
\* "" when there is no match
GroupAt(s, lit, cls, hits) ==
    IF hits = {} THEN <<>>
    ELSE TakeWhile(SubSeq(s, (CHOOSE h \in hits : \A j \in hits : h <= j) + Len(lit),
                          Len(s)), cls)

ReSearchGroup(s, lit, cls) == GroupAt(s, lit, cls, Matches(s, lit, cls))

\* every character the inputs use
Chars == WordChars \cup {" ", "\t", "\n", "\r", "@", ":", "/", "?", "#", "=",
                         ".", ",", "-", "[", "]", "+", "|", "'", "&"}

\* re.search(r"instagram\.com/([^/?#]+)", url)
extract_instagram_handle(url) ==
    IF OrEmpty(url) = <<>> THEN <<>>
    ELSE ReSearchGroup(url, <<"i","n","s","t","a","g","r","a","m",".","c","o","m","/">>,
                       Chars \ {"/", "?", "#"})

\* re.search(r"youtube\.com/@([A-Za-z0-9_\-\.]+)", url)
extract_youtube_handle(url) ==
    IF OrEmpty(url) = <<>> THEN <<>>
    ELSE ReSearchGroup(url, <<"y","o","u","t","u","b","e",".","c","o","m","/","@">>,
                       WordChars \cup {"-", "."})

UNAVATAR == <<"h","t","t","p","s",":","/","/","u","n","a","v","a","t","a","r",".","i","o","/">>
TWITTER == <<"h","t","t","p","s",":","/","/","t","w","i","t","t","e","r",".","c","o","m","/">>

\* the candidate lists of fetch_x_icon, fetch_youtube_icon, fetch_instagram_icon
x_candidates(handle) ==
    << UNAVATAR \o <<"x","/">> \o handle,
       UNAVATAR \o <<"t","w","i","t","t","e","r","/">> \o handle,
       UNAVATAR \o TWITTER \o handle,
       TWITTER \o handle \o <<"/","p","r","o","f","i","l","e","_","i","m","a","g","e",
                              "?","s","i","z","e","=","o","r","i","g","i","n","a","l">> >>

youtube_candidates(handle) ==
    << UNAVATAR \o <<"y","o","u","t","u","b","e","/">> \o handle,
       UNAVATAR \o <<"y","o","u","t","u","b","e","/","@">> \o handle,
       UNAVATAR \o <<"h","t","t","p","s",":","/","/","w","w","w",".","y","o","u","t","u","b","e",
                     ".","c","o","m","/","@">> \o handle >>

instagram_candidates(handle) ==
    << UNAVATAR \o <<"i","n","s","t","a","g","r","a","m","/">> \o handle,
       UNAVATAR \o <<"h","t","t","p","s",":","/","/","i","n","s","t","a","g","r","a","m",
                     ".","c","o","m","/">> \o handle >>

(***************************************************************************)
(* What urlopen and resp.read() can give for one request.                  *)
(***************************************************************************)
IMAGE_PNG == <<"i","m","a","g","e","/","p","n","g">>
TEXT_HTML == <<"t","e","x","t","/","h","t","m","l">>
BytesA == <<"A">>
BytesB == <<"B">>
BytesOld == <<"O">>

Timeout == [kind |-> "timeout", ctype |-> <<>>, data |-> <<>>]
NetError == [kind |-> "error", ctype |-> <<>>, data |-> <<>>]
Reply(ctype, data) == [kind |-> "reply", ctype |-> ctype, data |-> data]

\* every outcome: raised exceptions, and replies by Content-Type and body
AllResponses == {Timeout, NetError,
                 Reply(TEXT_HTML, BytesA), Reply(<<>>, BytesB),
                 Reply(IMAGE_PNG, <<>>),
                 Reply(IMAGE_PNG, BytesA), Reply(IMAGE_PNG, BytesB)}

\* the outcomes main can tell apart: the download fails or it succeeds
CoarseResponses == {Timeout, Reply(IMAGE_PNG, BytesA)}

(***************************************************************************)
(* download_first, one loop iteration per step                             *)
(***************************************************************************)
NoCall == [fn |-> "", cands |-> <<>>, path |-> <<>>, reqs |-> <<>>,
           resps |-> <<>>, before |-> None, ret |-> FALSE]

NewCall(fn, cands, path) ==
    [fn |-> fn, cands |-> cands, path |-> path, reqs |-> <<>>, resps |-> <<>>,
     before |-> IF path \in DOMAIN files THEN files[path] ELSE None,
     ret |-> FALSE]

\* Variant: the Content-Type is not looked at (line 47 without its second test).
Accepted_any_type(r) == r.kind = "reply" /\ r.data # <<>>

\* line 47: `if not data or not ctype.startswith("image/"): continue`,
\* inside the try that turns every exception into `continue`
Accepted(r) ==
    /\ r.kind = "reply"
    /\ ~(r.data = <<>> \/ ~StartsWith(r.ctype, <<"i","m","a","g","e","/">>))

\* lines 41-55: the request of the next candidate, and what follows from
\* its outcome: the write and `return True`, `continue`, or, after the last
\* candidate, `return False`
Request(responses) ==
    /\ fPc = "dl"
    /\ \E r \in responses :
        LET url == dl.cands[Len(dl.reqs) + 1]
            seen == [dl EXCEPT !.reqs = Append(@, url), !.resps = Append(@, r)]
        IN IF Accepted(r)
           THEN /\ files' = (dl.path :> r.data) @@ files
                /\ dl' = [seen EXCEPT !.ret = TRUE]
                /\ fPc' = "ret"
                /\ fHist' = [fHist EXCEPT !.requested = @ \cup {fRun}]
           ELSE /\ files' = files
                /\ dl' = seen
                /\ fPc' = IF Len(seen.reqs) = Len(dl.cands) THEN "ret" ELSE "dl"
                /\ fHist' = [fHist EXCEPT
                                !.requested = @ \cup {fRun},
                                !.failed = IF Len(seen.reqs) = Len(dl.cands)
                                           THEN @ \cup {fRun} ELSE @]
    /\ UNCHANGED <<fRun, fForce, fIdx>>
    /\ UNCHANGED <<handleVars, csvVars, pubVars, img>>

(***************************************************************************)
(* main: lines 105-172                                                     *)
(***************************************************************************)
\* the loop goes on to the next row
NextRow ==
    /\ fIdx' = fIdx + 1
    /\ fPc' = "row"
    /\ dl' = NoCall

\* main calls fetch_*_icon, which calls download_first
Call(fn, cands, path) ==
    /\ fIdx' = fIdx
    /\ fPc' = "dl"
    /\ dl' = NewCall(fn, cands, path)

\* lines 157-167: the YouTube handle of the row, if any
YoutubeOf(yt_handle) ==
    IF yt_handle # <<>> /\ ~(IconPath(yt_handle) \in DOMAIN files /\ ~fForce)
    THEN Call("fetch_youtube_icon", youtube_candidates(yt_handle), IconPath(yt_handle))
    ELSE NextRow

\* lines 155-167: `if not fetched:` tries YouTube
YoutubeBranch(row) ==
    YoutubeOf(extract_youtube_handle(Strip(OrEmpty(Get(row, COL_SNS)))))

\* lines 128-133 and 139-148: the branch on the X and Instagram handles
BranchOf(row, x_handle, ig_handle) ==
    IF x_handle # <<>>
    THEN IF IconPath(x_handle) \in DOMAIN files /\ ~fForce
         THEN NextRow
         ELSE Call("fetch_x_icon", x_candidates(x_handle), IconPath(x_handle))
    ELSE IF ig_handle # <<>> /\ ~(IconPath(ig_handle) \in DOMAIN files /\ ~fForce)
         THEN Call("fetch_instagram_icon", instagram_candidates(ig_handle),
                   IconPath(ig_handle))
         ELSE YoutubeBranch(row)

\* lines 121-133 and 139-148, 155-162: a row, up to its first download or
\* to the end of the iteration when it needs none
BeginRow ==
    /\ fPc = "row"
    /\ fIdx <= Len(roster)
    /\ BranchOf(roster[fIdx],
                extract_handle(Strip(OrEmpty(Get(roster[fIdx], COL_X)))),
                extract_instagram_handle(Strip(OrEmpty(Get(roster[fIdx], COL_SNS)))))
    /\ UNCHANGED <<files, fRun, fForce, fHist>>
    /\ UNCHANGED <<handleVars, csvVars, pubVars, img>>

\* lines 134-138, 149-153 and 155, 163-170: download_first has returned
AfterDownload ==
    /\ fPc = "ret"
    /\ IF dl.fn = "fetch_instagram_icon" /\ ~dl.ret
       THEN YoutubeBranch(roster[fIdx])
       ELSE NextRow
    /\ UNCHANGED <<files, fRun, fForce, fHist>>
    /\ UNCHANGED <<handleVars, csvVars, pubVars, img>>

MaxRuns == 2

\* lines 105-119: main is invoked, with or without --force, and finds the
\* CSV (without it main exits with status 1 at line 116)
StartRun ==
    /\ fPc = "idle"
    /\ inExists
    /\ fRun < MaxRuns
    /\ \E force \in BOOLEAN :
        /\ fForce' = force
        /\ fHist' = [fHist EXCEPT !.forced = IF force THEN @ \cup {fRun + 1} ELSE @]
    /\ fRun' = fRun + 1
    /\ fIdx' = 1
    /\ fPc' = "row"
    /\ UNCHANGED <<files, dl>>
    /\ UNCHANGED <<handleVars, csvVars, pubVars, img>>

\* line 172: the loop is over and main returns
EndRun ==
    /\ fPc = "row"
    /\ fIdx > Len(roster)
    /\ fPc' = "idle"
    /\ UNCHANGED <<files, fRun, fForce, fIdx, dl, fHist>>
    /\ UNCHANGED <<handleVars, csvVars, pubVars, img>>

(***************************************************************************)
(* scripts/export_public.py: the publisher                                 *)
(***************************************************************************)
COL_PUBLISH == "koukai-kahi"   \* the column "公開可否"
COL_NAME == "handle-name"      \* the column "ハンドルネーム"
COL_ICON == "icon-URL"         \* the column "アイコンURL"
COL_NOTE == "hitokoto"         \* the column "ひとこと"

\* a character outside ASCII is written as its code point
KOUKAI == <<"U+516C", "U+958B">>                                  \* "公開"

\* line 23: {"true", "1", "yes", "y", "公開", "ok"}
TruthyTokens == { <<"t","r","u","e">>, <<"1">>, <<"y","e","s">>, <<"y">>,
                  KOUKAI, <<"o","k">> }

\* Variant: the value is not trimmed (line 22 without strip()).
truthy_no_strip(s) == IF s = None THEN FALSE ELSE Lower(s) \in TruthyTokens

\* lines 19-23
truthy(s) == IF s = None THEN FALSE ELSE Lower(Strip(s)) \in TruthyTokens

Range(f) == {f[i] : i \in DOMAIN f}

\* sep.join(parts)
RECURSIVE Join(_, _)
Join(parts, sep) ==
    IF parts = <<>> THEN <<>>
    ELSE IF Len(parts) = 1 THEN parts[1]
    ELSE parts[1] \o sep \o Join(Tail(parts), sep)

\* str.replace(a, b) for one-character a and b
ReplaceChar(s, a, b) == [i \in 1..Len(s) |-> IF s[i] = a THEN b ELSE s[i]]

\* lines 26-32: csv.DictWriter writes the header, then of each row the
\* values of the header's columns (None as "")
write_csv(rows, fields) ==
    [header |-> fields,
     rows |-> [i \in 1..Len(rows) |->
                [j \in 1..Len(fields) |-> OrEmpty(Get(rows[i], fields[j]))]]]

\* the three fixed paragraphs of lines 39-41; a column name and a fixed
\* paragraph are one item of the text each, every other item is a character
MD_TITLE == <<"# title", "\n", "\n", "(note)", "\n", "\n", "official-site", "\n", "\n">>

\* line 37: the columns of the table
md_fields(fields) == SelectSeq(fields, LAMBDA fn : fn # COL_PUBLISH)

\* lines 45-46: one line of the table
md_line(r, cols) ==
    <<"|", " ">>
    \o Join([j \in 1..Len(cols) |-> ReplaceChar(OrEmpty(Get(r, cols[j])), "\n", " ")],
            <<" ", "|", " ">>)
    \o <<" ", "|", "\n">>

\* lines 38-46, with the columns of line 37
md_text(rows, cols) ==
    MD_TITLE
    \o <<"|", " ">> \o Join([j \in 1..Len(cols) |-> <<cols[j]>>], <<" ", "|", " ">>)
    \o <<" ", "|", "\n">>
    \o <<"|">> \o Join([j \in 1..Len(cols) |-> <<"-", "-", "-">>], <<"|">>)
    \o <<"|", "\n">>
    \o Join([i \in 1..Len(rows) |-> md_line(rows[i], cols)], <<>>)

\* lines 35-47: the text written to OUT_MD
write_md(rows, fields) == md_text(rows, md_fields(fields))

\* the last "/" of path, 0 when it has none
RECURSIVE LastSlash(_, _)
LastSlash(path, i) ==
    IF i = 0 THEN 0
    ELSE IF path[i] = "/" THEN i
    ELSE LastSlash(path, i - 1)

\* os.path.basename
basename(path) == SubSeq(path, LastSlash(path, Len(path)) + 1, Len(path))

\* int(os.path.getmtime(dst)), in decimal; the files here share one mtime
MTIME == <<"1", "7">>

DOCS_REF == <<"a","s","s","e","t","s","/","i","c","o","n","s","/">>

\* lines 50-68: the src for the HTML, and the file name copied into
\* docs/assets/icons (none: {})
ensure_docs_icons(icon_path) ==
    IF \/ StartsWith(icon_path, <<"h","t","t","p",":","/","/">>)
       \/ StartsWith(icon_path, <<"h","t","t","p","s",":","/","/">>)
    THEN [src |-> icon_path, copied |-> {}]
    ELSE IF icon_path = <<>> THEN [src |-> <<>>, copied |-> {}]
    ELSE IF icon_path \notin DOMAIN files THEN [src |-> <<>>, copied |-> {}]
    ELSE [src |-> DOCS_REF \o basename(icon_path) \o <<"?", "v", "=">> \o MTIME,
          copied |-> {basename(icon_path)}]

\* lines 78-89, of the stripped argument
XHandleOfStripped(u) ==
    IF StartsWith(u, <<"@">>) THEN Tail(u)
    ELSE IF StartsWith(u, HTTP)
         THEN IF urlsplit(u).error THEN <<>> ELSE FirstSegment(urlsplit(u).path)
         ELSE u

\* lines 72-89
extract_x_handle(x_url) ==
    IF OrEmpty(x_url) = <<>> THEN <<>> ELSE XHandleOfStripped(Strip(x_url))

\* lines 91-95
extract_instagram_handle_from_links(links) ==
    IF OrEmpty(links) = <<>> THEN <<>>
    ELSE ReSearchGroup(links, <<"i","n","s","t","a","g","r","a","m",".","c","o","m","/">>,
                       Chars \ {"/", "?", "#"})

(***************************************************************************)
(* write_html: the order of the cards, and the img element of each         *)
(***************************************************************************)
\* line 157: {"イケハヤ", "むなかた総理", "RYUTA"}
IKEHAYA == <<"U+30A4", "U+30B1", "U+30CF", "U+30E4">>
MUNAKATA == <<"U+3080", "U+306A", "U+304B", "U+305F", "U+7DCF", "U+7406">>
bottom_names == {IKEHAYA, MUNAKATA, <<"R","Y","U","T","A">>}

\* lines 158-162
has_icon_row(r) ==
    \/ Strip(OrEmpty(Get(r, COL_ICON))) # <<>>
    \/ extract_x_handle(OrEmpty(Get(r, COL_X))) # <<>>
    \/ extract_instagram_handle_from_links(OrEmpty(Get(r, COL_SNS))) # <<>>

\* Variant: the icon test is the first component of the key and the
\* deny-list the second.
sort_key_icon_first(rows, i) ==
    << IF has_icon_row(rows[i]) THEN 0 ELSE 1,
       IF OrEmpty(Get(rows[i], COL_NAME)) \in bottom_names THEN 1 ELSE 0,
       i >>

\* lines 164-168: the key of the row at index i
sort_key(rows, i) ==
    << IF OrEmpty(Get(rows[i], COL_NAME)) \in bottom_names THEN 1 ELSE 0,
       IF has_icon_row(rows[i]) THEN 0 ELSE 1,
       i >>

\* the order of Python's tuples
TupleLess(a, b) ==
    \/ a[1] < b[1]
    \/ a[1] = b[1] /\ a[2] < b[2]
    \/ a[1] = b[1] /\ a[2] = b[2] /\ a[3] < b[3]

\* the index n put into the sorted indexes done: behind every index whose
\* key is not greater
Insert(done, n, keys) ==
    SelectSeq(done, LAMBDA i : ~TupleLess(keys[n], keys[i]))
    \o <<n>>
    \o SelectSeq(done, LAMBDA i : TupleLess(keys[n], keys[i]))

RECURSIVE InsertionSort(_, _)
InsertionSort(keys, n) ==
    IF n = 0 THEN <<>> ELSE Insert(InsertionSort(keys, n - 1), n, keys)

\* list.sort(key=...), as a stable insertion sort: the indexes of rows in
\* the order of their keys
SortedIndexes(rows, n) ==
    InsertionSort([i \in 1..Len(rows) |-> sort_key(rows, i)], n)

X_COM == <<"h","t","t","p","s",":","/","/","x",".","c","o","m","/">>
PROFILE_IMAGE == <<"/","p","r","o","f","i","l","e","_","i","m","a","g","e",
                   "?","s","i","z","e","=","o","r","i","g","i","n","a","l">>

NoImg == [src |-> <<>>, onerror |-> <<>>]

\* lines 200 and 202: a source is put between single quotes as it is
JsQuoted(src) == <<"'">> \o src \o <<"'">>

\* lines 197-206: the statements of the onerror attribute.  "swap" is
\*   if (dataset.step is `when`) { dataset.step = step; src = lit; return; }
\* with `when` = "" for `!this.dataset.step` and lit the text of a string
\* literal; "off" is `this.onerror=null`.
OnError(sources) ==
    (IF Len(sources) > 1
     THEN << [op |-> "swap", when |-> "", step |-> "1", lit |-> JsQuoted(sources[2])] >>
     ELSE <<>>)
    \o (IF Len(sources) > 2
        THEN << [op |-> "swap", when |-> "1", step |-> "2", lit |-> JsQuoted(sources[3])] >>
        ELSE <<>>)
    \o << [op |-> "off", when |-> "", step |-> "", lit |-> <<>>] >>

\* lines 194-213: the img element of the sources in order
ImgOf(sources) ==
    IF sources # <<>>
    THEN [src |-> sources[1], onerror |-> OnError(sources)]
    ELSE NoImg

\* lines 178-182: the live-avatar URLs of the handles
XLive(x_handle) ==
    IF x_handle # <<>> THEN X_COM \o x_handle \o PROFILE_IMAGE ELSE <<>>

Unavatar(x_handle, ig_handle) ==
    IF x_handle # <<>> THEN UNAVATAR \o <<"x", "/">> \o x_handle
    ELSE IF ig_handle # <<>>
         THEN UNAVATAR \o <<"i","n","s","t","a","g","r","a","m","/">> \o ig_handle
         ELSE <<>>

\* lines 194-213, of the three sources
CardOf(idx, icon_src, unavatar, x_live, copied) ==
    [idx |-> idx,
     icon_src |-> icon_src, unavatar |-> unavatar, x_live |-> x_live,
     sources |-> SelectSeq(<<icon_src, unavatar, x_live>>, LAMBDA u : u # <<>>),
     img |-> ImgOf(SelectSeq(<<icon_src, unavatar, x_live>>, LAMBDA u : u # <<>>)),
     copied |-> copied]

\* lines 174-177: the local icon of a handle when there is no src yet
IconOrLocal(icon, handle) ==
    IF icon.src = <<>> /\ handle # <<>>
    THEN [src |-> ensure_docs_icons(DOCS_REF \o handle \o <<".","j","p","g">>).src,
          copied |-> icon.copied
                     \cup ensure_docs_icons(DOCS_REF \o handle \o <<".","j","p","g">>).copied]
    ELSE icon

\* lines 172-183, of the handles and the icon of the icon column
CardOfHandles(idx, icon, x_handle, ig_handle) ==
    CardOf(idx, icon.src, Unavatar(x_handle, ig_handle), XLive(x_handle),
           icon.copied)

\* lines 172-183 and 194-213: what the card of row r, the idx-th published
\* row, holds of its image
Card(r, idx) ==
    CardOfHandles(idx,
                  IconOrLocal(IconOrLocal(ensure_docs_icons(Strip(OrEmpty(Get(r, COL_ICON)))),
                                          extract_x_handle(OrEmpty(Get(r, COL_X)))),
                              extract_instagram_handle_from_links(OrEmpty(Get(r, COL_SNS)))),
                  extract_x_handle(OrEmpty(Get(r, COL_X))),
                  extract_instagram_handle_from_links(OrEmpty(Get(r, COL_SNS))))

\* the cards of rows in the order of the indexes
CardsOf(rows, order) ==
    [p \in 1..Len(rows) |-> Card(rows[order[p]], order[p])]

\* lines 71-246: the page, as the placeholder flag and the cards in order
write_html(rows) ==
    [placeholder |-> rows = <<>>,
     cards |-> CardsOf(rows, SortedIndexes(rows, Len(rows)))]

(***************************************************************************)
(* main of the publisher: lines 249-263                                    *)
(***************************************************************************)
\* line 259
pub_rows == SelectSeq(roster, LAMBDA r : truthy(Get(r, COL_PUBLISH)))

\* lines 250-251: the input file is absent
MainNoInput ==
    /\ pPc = "start"
    /\ ~inExists
    /\ pPc' = "exit"
    /\ pExit' = 1
    /\ UNCHANGED <<outCsv, outMd, outHtml, docsIcons>>
    /\ UNCHANGED <<handleVars, csvVars, files, fetchVars, img>>

\* Variant: a missing column is taken as "no row is published".
MainNoColumn_as_row_skip ==
    /\ pPc = "start"
    /\ inExists
    /\ COL_PUBLISH \notin Range(fieldnames)
    /\ pPc' = "exit"
    /\ pExit' = 0
    /\ outCsv' = write_csv(pub_rows, fieldnames)
    /\ outMd' = write_md(pub_rows, fieldnames)
    /\ outHtml' = write_html(pub_rows)
    /\ docsIcons' = docsIcons
    /\ UNCHANGED <<handleVars, csvVars, files, fetchVars, img>>

\* lines 252-257: the header lacks the publish-flag column
MainNoColumn ==
    /\ pPc = "start"
    /\ inExists
    /\ COL_PUBLISH \notin Range(fieldnames)
    /\ pPc' = "exit"
    /\ pExit' = 1
    /\ UNCHANGED <<outCsv, outMd, outHtml, docsIcons>>
    /\ UNCHANGED <<handleVars, csvVars, files, fetchVars, img>>

\* lines 252-263: the three outputs are written
MainExport ==
    /\ pPc = "start"
    /\ inExists
    /\ COL_PUBLISH \in Range(fieldnames)
    /\ pPc' = "exit"
    /\ pExit' = 0
    /\ outCsv' = write_csv(pub_rows, fieldnames)
    /\ outMd' = write_md(pub_rows, fieldnames)
    /\ outHtml' = write_html(pub_rows)
    /\ docsIcons' = docsIcons \cup
                    UNION {outHtml'.cards[p].copied : p \in 1..Len(outHtml'.cards)}
    /\ UNCHANGED <<handleVars, csvVars, files, fetchVars, img>>

(***************************************************************************)
(* The browser, on the img element of one card of docs/index.html          *)
(***************************************************************************)
Closed == [card |-> 0, src |-> <<>>, step |-> "", onerror |-> FALSE,
           srcs |-> <<>>, errors |-> 0]

MaxErrors == 4

\* the value of an attribute written between double quotes ends at the
\* first double quote
AttrValue(text) == SplitFirst(text, "\"")

\* the string a single-quoted literal denotes: up to the next single quote
\* (escape sequences are not modelled)
JsValue(lit) == SplitFirst(Tail(lit), "'")

\* the literal reaches the browser whole and ends at its last character
WellFormed(lit) ==
    /\ AttrValue(lit) = lit
    /\ Len(JsValue(lit)) = Len(lit) - 2

\* the text of the onerror attribute is a script: with a syntax error in
\* it the element has no handler
Compiles(stmts) ==
    \A k \in 1..Len(stmts) : stmts[k].op = "swap" => WellFormed(stmts[k].lit)

\* the page is shown: the img of card i loads its src
OpenCard ==
    /\ pPc = "exit"
    /\ pExit = 0
    /\ img = Closed
    /\ \E i \in 1..Len(outHtml.cards) :
        /\ outHtml.cards[i].img # NoImg
        /\ img' = [card |-> i, src |-> AttrValue(outHtml.cards[i].img.src), step |-> "",
                   onerror |-> Compiles(outHtml.cards[i].img.onerror),
                   srcs |-> <<AttrValue(outHtml.cards[i].img.src)>>,
                   errors |-> 0]
    /\ UNCHANGED <<handleVars, csvVars, files, fetchVars, pubVars>>

\* one statement of the handler, on `this` = el
RECURSIVE RunOnError(_, _)
RunStatement(st, rest, el) ==
    IF st.op = "swap"
    THEN IF el.step = st.when
         THEN [el EXCEPT !.step = st.step, !.src = JsValue(st.lit),
                         !.srcs = Append(@, JsValue(st.lit))]
         ELSE RunOnError(rest, el)
    ELSE RunOnError(rest, [el EXCEPT !.onerror = FALSE])

\* the handler run on `this` = el: its first statement that applies
RunOnError(stmts, el) ==
    IF stmts = <<>> THEN el ELSE RunStatement(Head(stmts), Tail(stmts), el)

\* the current src fails to load: the error event, and the handler if set
ImgError ==
    /\ img # Closed
    /\ img.errors < MaxErrors
    /\ img' = IF img.onerror
              THEN RunOnError(outHtml.cards[img.card].img.onerror,
                              [img EXCEPT !.errors = @ + 1])
              ELSE [img EXCEPT !.errors = @ + 1]
    /\ UNCHANGED <<handleVars, csvVars, files, fetchVars, pubVars>>

(***************************************************************************)
(* extract_handle applied to one input                                     *)
(***************************************************************************)
ExtractHandle ==
    /\ ~hDone
    /\ hOut' = extract_handle(hIn)
    /\ hDone' = TRUE
    /\ UNCHANGED hIn
    /\ UNCHANGED <<csvVars, files, fetchVars, pubVars, img>>

(***************************************************************************)
(* Inputs of extract_handle: a lead, a head, a middle and a tail, joined.  *)
(***************************************************************************)
HTTPS_X == <<"h","t","t","p","s",":","/","/","x",".","c","o","m">>
HTTP_T == <<"h","t","t","p",":","/","/","t",".","c","o">>

HandleLeads == {<<>>, <<" ">>}
HandleHeads == {<<>>, <<"@">>, HTTPS_X, HTTP_T,
                <<"h","t","t","p",":","/","/","[","x">>,
                <<"h","t","t","p","_","u">>,
                <<"x",".","c","o","m">>}
HandleMiddles == {<<>>, <<"/">>, <<"/","f","o","o">>, <<"/","/","f","o","o">>,
                  <<"/","F","o","_","1","/","s","t","a","t","u","s","/","1","2","3">>,
                  <<"f","o","o",".","b","-","r">>, <<"f","o","o","9">>}
HandleTails == {<<>>, <<"?","s","=","2","1">>, <<"/">>, <<"#","f">>, <<" ">>, <<"\n">>}

HandleInputs ==
    {l \o h \o m \o t : l \in HandleLeads, h \in HandleHeads,
                        m \in HandleMiddles, t \in HandleTails}

(***************************************************************************)
(* Rosters of the fetcher                                                  *)
(***************************************************************************)
FetchRow(x, sns) == (COL_X :> x) @@ (COL_SNS :> sns)

X_FOO == <<"h","t","t","p","s",":","/","/","x",".","c","o","m","/","f","o","o">>
IG_BAR == <<"h","t","t","p","s",":","/","/","w","w","w",".","i","n","s","t","a","g","r","a","m",
            ".","c","o","m","/","b","a","r","/">>
YT_BAZ == <<"h","t","t","p","s",":","/","/","y","o","u","t","u","b","e",".","c","o","m","/",
            "@","b","a","z">>

FetchRows ==
    { FetchRow(X_FOO, <<>>),                           \* X only
      FetchRow(<<"@","f","o","o">>, IG_BAR),            \* X and Instagram
      FetchRow(<<>>, IG_BAR),                          \* Instagram only
      FetchRow(<<>>, YT_BAZ \o <<",", " ">> \o IG_BAR), \* Instagram and YouTube
      FetchRow(<<>>, YT_BAZ),                          \* YouTube only
      FetchRow(None, <<>>) }                           \* no identity

MaxFetchRows == 2

Extend(shorter, S) == shorter \cup {Append(q, e) : q \in shorter, e \in S}

RECURSIVE SeqsUpTo(_, _)
SeqsUpTo(S, n) ==
    IF n = 0 THEN {<<>>} ELSE Extend(SeqsUpTo(S, n - 1), S)

(***************************************************************************)
(* Initial states                                                          *)
(***************************************************************************)
Absent == <<"absent">>      \* an output file that does not exist
Stale == <<"stale">>        \* an output file left by an earlier run

HandleIdle ==
    /\ hIn = <<>>
    /\ hOut = <<>>
    /\ hDone = FALSE

FetchIdle ==
    /\ fRun = 0
    /\ fForce = FALSE
    /\ fIdx = 1
    /\ fPc = "idle"
    /\ dl = NoCall
    /\ fHist = [forced |-> {}, failed |-> {}, requested |-> {}]

PubIdle ==
    /\ pPc = "start"
    /\ pExit = -1
    /\ outCsv \in {Absent, Stale}
    /\ outMd = outCsv
    /\ outHtml = outCsv
    /\ docsIcons = {}
    /\ img = Closed

CsvIdle ==
    /\ inExists = FALSE
    /\ fieldnames = <<>>
    /\ roster = <<>>
    /\ files = <<>>

InitHandle ==
    /\ hIn \in HandleInputs
    /\ hOut = <<>>
    /\ hDone = FALSE
    /\ CsvIdle /\ FetchIdle /\ PubIdle /\ outCsv = Absent

NextHandle == ExtractHandle

SpecHandle == InitHandle /\ [][NextHandle]_vars

InitCaches == {<<>>, IconPath(<<"f","o","o">>) :> BytesOld}

InitFetchWith(rosters) ==
    /\ inExists = TRUE
    /\ fieldnames = <<COL_X, COL_SNS>>
    /\ roster \in rosters
    /\ files \in InitCaches
    /\ HandleIdle /\ FetchIdle /\ PubIdle /\ outCsv = Absent

\* the fetcher over rosters of up to MaxFetchRows rows, each download
\* failing or succeeding
InitFetch == InitFetchWith(SeqsUpTo(FetchRows, MaxFetchRows))

NextFetch ==
    \/ StartRun
    \/ BeginRow
    \/ Request(CoarseResponses)
    \/ AfterDownload
    \/ EndRun

SpecFetch == InitFetch /\ [][NextFetch]_vars

\* the fetcher over one-row rosters, each request with every outcome
InitDownload == InitFetchWith({<<r>> : r \in FetchRows})

NextDownload ==
    \/ StartRun
    \/ BeginRow
    \/ Request(AllResponses)
    \/ AfterDownload
    \/ EndRun

SpecDownload == InitDownload /\ [][NextDownload]_vars

(***************************************************************************)
(* Rosters of the publisher                                                *)
(***************************************************************************)
\* values of the publish-flag column: the accepted tokens in several
\* spellings, and values that are not accepted
FlagValues ==
    { <<"t","r","u","e">>, <<" ","T","r","u","e","\n">>, <<"1">>,
      <<"Y","E","S"," ">>, <<"y">>, KOUKAI, <<"\t","O","k">>,
      <<"f","a","l","s","e">>, <<"n","o">>, <<"y","e","s","!">>, <<>>, None }

NAME_A == <<"A","l","i">>
NAME_B == <<"B","o","b">>

MaxRows == 3

PublishRows == {(COL_PUBLISH :> f) @@ (COL_NAME :> NAME_A) : f \in FlagValues}
NameRows == {(COL_NAME :> n) : n \in {NAME_A, NAME_B}}

\* the publisher over an absent file, an empty file, a file without the
\* publish-flag column and files with it
InitPublish ==
    /\ \/ inExists = FALSE /\ fieldnames = <<>> /\ roster = <<>>
       \/ inExists = TRUE /\ fieldnames = <<>> /\ roster = <<>>
       \/ /\ inExists = TRUE
          /\ fieldnames = <<COL_NAME>>
          /\ roster \in SeqsUpTo(NameRows, MaxRows)
       \/ /\ inExists = TRUE
          /\ fieldnames = <<COL_PUBLISH, COL_NAME>>
          /\ roster \in SeqsUpTo(PublishRows, MaxRows)
    /\ files = <<>>
    /\ HandleIdle /\ FetchIdle /\ PubIdle

NextPublish ==
    \/ MainNoInput
    \/ MainNoColumn
    \/ MainExport

SpecPublish == InitPublish /\ [][NextPublish]_vars

\* values of a free-text cell, with and without line breaks
NoteValues ==
    { <<"h","i">>, <<"a","\n","b">>, <<"a","\r","\n","b">>, <<"\n">>, <<>>, None }

MarkdownRows ==
    {(COL_PUBLISH :> f) @@ (COL_NAME :> NAME_A) @@ (COL_NOTE :> v) :
        f \in {<<"t","r","u","e">>, <<"n","o">>}, v \in NoteValues}

\* the publisher over rosters with a free-text column
InitMarkdown ==
    /\ inExists = TRUE
    /\ fieldnames \in {<<COL_PUBLISH, COL_NAME, COL_NOTE>>,
                       <<COL_NAME, COL_NOTE, COL_PUBLISH>>}
    /\ roster \in SeqsUpTo(MarkdownRows, MaxRows)
    /\ files = <<>>
    /\ HandleIdle /\ FetchIdle /\ PubIdle

NextMarkdown == MainExport

SpecMarkdown == InitMarkdown /\ [][NextMarkdown]_vars

GalleryRow(flag, name, icon, x, sns) ==
    (COL_PUBLISH :> flag) @@ (COL_NAME :> name) @@ (COL_ICON :> icon)
        @@ (COL_X :> x) @@ (COL_SNS :> sns)

YES == <<"t","r","u","e">>
E_ICON == <<"h","t","t","p","s",":","/","/","e",".","i","o","/","i">>
LOCAL_ICON == <<"i","m","g","/","e",".","p","n","g">>

GalleryRows ==
    { GalleryRow(YES, <<"R","Y","U","T","A">>, <<>>, <<"@","f","o","o">>, <<>>),
      GalleryRow(YES, NAME_B, <<>>, <<>>, <<>>),
      GalleryRow(YES, IKEHAYA, None, None, None),
      GalleryRow(YES, <<"C","a","l">>, E_ICON, X_FOO, <<>>),
      GalleryRow(YES, <<"D","a","n">>, <<>>, <<>>, IG_BAR),
      GalleryRow(YES, <<"E","v","e">>, LOCAL_ICON, <<>>, <<>>),
      GalleryRow(YES, <<"F","a","y">>, <<>>, <<"@","o","'","n">>, <<>>),
      GalleryRow(<<"n","o">>, NAME_A, <<>>, X_FOO, <<>>) }

MaxCards == 3

GalleryFiles ==
    { <<>>,
      IconPath(<<"f","o","o">>) :> BytesA,
      (IconPath(<<"f","o","o">>) :> BytesA) @@ (IconPath(<<"b","a","r">>) :> BytesB)
          @@ (LOCAL_ICON :> BytesOld) }

\* the publisher over rosters with icons and handles, then the browser
InitGallery ==
    /\ inExists = TRUE
    /\ fieldnames = <<COL_PUBLISH, COL_NAME, COL_ICON, COL_X, COL_SNS>>
    /\ roster \in SeqsUpTo(GalleryRows, MaxCards)
    /\ files \in GalleryFiles
    /\ HandleIdle /\ FetchIdle /\ PubIdle /\ outCsv = Absent

NextGallery ==
    \/ MainExport
    \/ OpenCard
    \/ ImgError

SpecGallery == InitGallery /\ [][NextGallery]_vars

PipelineRows ==
    { GalleryRow(YES, NAME_A, <<>>, x, sns) :
        x \in {X_FOO, <<"@","f","o","o">>, <<"f","o","o",".","b","a","r">>,
               <<"f","o","o","9">>, <<>>},
        sns \in {<<>>, IG_BAR} }

\* the fetcher, then the publisher, over the same CSV and working directory
InitPipeline ==
    /\ inExists = TRUE
    /\ fieldnames = <<COL_PUBLISH, COL_NAME, COL_ICON, COL_X, COL_SNS>>
    /\ roster \in SeqsUpTo(PipelineRows, MaxFetchRows)
    /\ files = <<>>
    /\ HandleIdle /\ FetchIdle /\ PubIdle /\ outCsv = Absent

NextPipeline ==
    \/ pPc = "start" /\ StartRun
    \/ pPc = "start" /\ BeginRow
    \/ pPc = "start" /\ Request(CoarseResponses)
    \/ pPc = "start" /\ AfterDownload
    \/ pPc = "start" /\ EndRun
    \/ fPc = "idle" /\ MainExport

SpecPipeline == InitPipeline /\ [][NextPipeline]_vars

(***************************************************************************)
(* C9: handle extraction                                                   *)
(***************************************************************************)
\* seg is the first non-empty segment of path ("" when path has none)
IsFirstSegment(path, seg) ==
    \E i \in 0..Len(path) :
        /\ \A k \in 1..i : path[k] = "/"
        /\ i = Len(path) \/ path[i + 1] # "/"
        /\ i + Len(seg) <= Len(path)
        /\ SubSeq(path, i + 1, i + Len(seg)) = seg
        /\ \A k \in 1..Len(seg) : seg[k] # "/"
        /\ i + Len(seg) = Len(path) \/ path[i + Len(seg) + 1] = "/"

\* what the claim says of an input s read as it stands
HandleContract(s, out) ==
    IF s = <<>> THEN out = <<>>
    ELSE IF StartsWith(s, <<"@">>) THEN out = SubSeq(s, 2, Len(s))
    ELSE IF StartsWith(s, HTTP)
         THEN /\ urlsplit(s).error => out = <<>>
              /\ ~urlsplit(s).error =>
                    /\ IsFirstSegment(urlsplit(s).path, out)
                    /\ \A k \in 1..Len(out) : out[k] # "?"
         ELSE /\ out = SelectSeq(s, LAMBDA c : c \in WordChars)
              /\ (\A k \in 1..Len(s) : s[k] \in WordChars) => out = s

\* C9 (as stated): for every input string, extract_handle returns the
\* remainder after a leading @, the first non-empty path segment of an
\* input starting with http ("" for no segment or a malformed URL), "" for
\* "", and any other token with the characters outside [A-Za-z0-9_] removed.
C9_Original == hDone => HandleContract(hIn, hOut)

\* C9 (amended): the same, of the input with its surrounding whitespace
\* trimmed: extract_handle strips the input before it reads its first
\* character.
C9_HandleExtraction == hDone => HandleContract(Strip(hIn), hOut)

C9_Witness ==
    /\ hDone
    /\ hIn = HTTPS_X \o <<"/","F","o","_","1","/","s","t","a","t","u","s","/","1","2","3">>
                     \o <<"?","s","=","2","1">>
    /\ hOut = <<"F","o","_","1">>

(***************************************************************************)
(* C1, C2, C3: the fetcher                                                 *)
(***************************************************************************)
\* C1: when main is run twice in succession without --force and every
\* download the first run attempted succeeded, the second run makes no
\* network request.
C1_Idempotence ==
    (1 \notin fHist.forced /\ 2 \notin fHist.forced /\ 1 \notin fHist.failed)
        => 2 \notin fHist.requested

\* C2: the candidates requested for a row are those of the one identity
\* chosen by priority: no Instagram or YouTube candidate for a row with an
\* X handle, no YouTube candidate for a row with an Instagram handle.
C2_OneIdentity ==
    fPc \in {"dl", "ret"} =>
        LET row == roster[fIdx]
            x_handle == extract_handle(Strip(OrEmpty(Get(row, COL_X))))
            sns_links == Strip(OrEmpty(Get(row, COL_SNS)))
            ig_handle == extract_instagram_handle(sns_links)
            yt_handle == extract_youtube_handle(sns_links)
            ig_urls == Range(instagram_candidates(ig_handle))
            yt_urls == Range(youtube_candidates(yt_handle))
        IN /\ x_handle # <<>> => Range(dl.reqs) \cap (ig_urls \cup yt_urls) = {}
           /\ ig_handle # <<>> => Range(dl.reqs) \cap yt_urls = {}

\* a reply whose Content-Type starts with image/ and whose body is not empty
IsImageReply(r) ==
    /\ r.kind = "reply"
    /\ Len(r.data) > 0
    /\ Len(r.ctype) >= 6
    /\ SubSeq(r.ctype, 1, 6) = <<"i","m","a","g","e","/">>

PublishedFlags ==
    { <<"t","r","u","e">>, <<" ","T","r","u","e","\n">>, <<"1">>,
      <<"Y","E","S"," ">>, <<"y">>, KOUKAI, <<"\t","O","k">> }

\* the rows of the roster with such a flag, in the order of the roster
ExpectedRows ==
    SelectSeq(roster, LAMBDA r : COL_PUBLISH \in DOMAIN r /\ r[COL_PUBLISH] \in PublishedFlags)

\* C4: the published rows are the rows of the roster, in source order,
\* whose publish flag, trimmed and in lower case, is an accepted token; a
\* flag "false", "no", "" or None publishes nothing, and no flag is an error.
C4_PublishedRows ==
    (pPc = "exit" /\ COL_PUBLISH \in Range(fieldnames)) =>
        /\ pExit = 0
        /\ outCsv.header = fieldnames
        /\ outCsv.rows = [i \in 1..Len(ExpectedRows) |->
                            <<OrEmpty(ExpectedRows[i][COL_PUBLISH]), ExpectedRows[i][COL_NAME]>>]
        /\ Len(outHtml.cards) = Len(ExpectedRows)
        /\ outHtml.placeholder = (ExpectedRows = <<>>)

C4_Witness ==
    /\ pPc = "exit"
    /\ pExit = 0
    /\ fieldnames = <<COL_PUBLISH, COL_NAME>>
    /\ Len(roster) = 3
    /\ roster[1][COL_PUBLISH] = <<"t","r","u","e">>
    /\ roster[2][COL_PUBLISH] = <<"n","o">>
    /\ roster[3][COL_PUBLISH] = KOUKAI
    /\ outCsv.rows = << <<<<"t","r","u","e">>, NAME_A>>, <<KOUKAI, NAME_A>> >>
    /\ Len(outHtml.cards) = 2

\* C8: with the input file absent, or the publish-flag column missing from
\* the header, the publisher exits non-zero and none of its outputs is
\* created or modified.
C8_FatalBeforeWriting ==
    (pPc = "exit" /\ (~inExists \/ COL_PUBLISH \notin Range(fieldnames))) =>
        /\ pExit # 0
        /\ outCsv \in {Absent, Stale}
        /\ outMd = outCsv
        /\ outHtml = outCsv
        /\ docsIcons = {}

C8_Witness ==
    /\ pPc = "exit"
    /\ pExit = 1
    /\ inExists
    /\ fieldnames = <<COL_NAME>>
    /\ Len(roster) = 2
    /\ outCsv = Stale
    /\ outHtml = Stale

(***************************************************************************)
(* C6: the Markdown table                                                  *)
(***************************************************************************)
\* how many items of text are the character c
Count(text, c) == Cardinality({i \in 1..Len(text) : text[i] = c})

\* C6: the Markdown text holds no publish-flag column, one line per
\* published row, and no line break inside a cell: every line feed is the
\* end of a line of the page (six of the title, one of the header, one of
\* the separator, one per row) and no carriage return is left.
C6_MarkdownTable ==
    (pPc = "exit" /\ pExit = 0) =>
        /\ COL_PUBLISH \notin Range(outMd)
        /\ Count(outMd, "\n") = 8 + Len(pub_rows)
        /\ Count(outMd, "\r") = 0

(***************************************************************************)
(* C5: the order of the cards                                              *)
(***************************************************************************)
Deny(r) == OrEmpty(Get(r, COL_NAME)) \in bottom_names

NoIdentity(r) ==
    /\ Strip(OrEmpty(Get(r, COL_ICON))) = <<>>
    /\ extract_x_handle(OrEmpty(Get(r, COL_X))) = <<>>
    /\ extract_instagram_handle_from_links(OrEmpty(Get(r, COL_SNS))) = <<>>

\* row a may stand before row b, a being the earlier of the two in the input
\* iff inOrder
MayPrecede(a, b, inOrder) ==
    /\ Deny(a) => Deny(b)
    /\ (Deny(a) = Deny(b) /\ NoIdentity(a)) => NoIdentity(b)
    /\ (Deny(a) = Deny(b) /\ NoIdentity(a) = NoIdentity(b)) => inOrder

\* C5: one card per published row; deny-listed names after all others;
\* within each group the rows with no icon identity after those with one;
\* rows equal on both in their input order.
C5_GalleryOrder ==
    (pPc = "exit" /\ pExit = 0) =>
        /\ Len(outHtml.cards) = Len(pub_rows)
        /\ {outHtml.cards[p].idx : p \in 1..Len(outHtml.cards)} = 1..Len(pub_rows)
        /\ \A p, q \in 1..Len(outHtml.cards) :
              p < q => MayPrecede(pub_rows[outHtml.cards[p].idx],
                                  pub_rows[outHtml.cards[q].idx],
                                  outHtml.cards[p].idx < outHtml.cards[q].idx)

C5_Witness ==
    /\ pPc = "exit"
    /\ Len(roster) = 3
    /\ roster[1][COL_NAME] = <<"R","Y","U","T","A">>
    /\ roster[2][COL_NAME] = NAME_B
    /\ roster[3][COL_NAME] = <<"C","a","l">>
    /\ [p \in 1..3 |-> outHtml.cards[p].idx] = <<3, 2, 1>>

(***************************************************************************)
(* C7: the image element and its fallbacks                                 *)
(***************************************************************************)
Min(a, b) == IF a < b THEN a ELSE b

NonEmpty(urls) == SelectSeq(urls, LAMBDA u : u # <<>>)

\* what card c embeds
EmbedsInOrder(c) ==
    /\ c.sources = NonEmpty(<<c.icon_src, c.unavatar, c.x_live>>)
    /\ (c.sources = <<>>) = (c.img = NoImg)
    /\ c.sources # <<>> => c.img.src = c.sources[1]

\* the img element el after el.errors load errors, of the sources s
FallsBack(el, s) ==
    /\ el.srcs = SubSeq(s, 1, Min(el.errors + 1, Len(s)))
    /\ el.src = s[Min(el.errors + 1, Len(s))]
    /\ el.errors >= Len(s) => ~el.onerror

\* C7: a card embeds its non-empty sources in the order icon, avatar
\* mirror, live profile image, and no img when it has none; on successive
\* load errors the handler sets the second, then the third source, each
\* once, and once the last has failed it is off and the source stays.
C7_ImageFallback ==
    (pPc = "exit" /\ pExit = 0) =>
        /\ \A p \in 1..Len(outHtml.cards) : EmbedsInOrder(outHtml.cards[p])
        /\ img # Closed => FallsBack(img, outHtml.cards[img.card].sources)

(***************************************************************************)
(* C10: the publisher finds what the fetcher stored                        *)
(***************************************************************************)
\* the handle under which the fetcher stores the icon of row r
FetcherHandle(r) ==
    IF extract_handle(Strip(OrEmpty(Get(r, COL_X)))) # <<>>
    THEN extract_handle(Strip(OrEmpty(Get(r, COL_X))))
    ELSE extract_instagram_handle(Strip(OrEmpty(Get(r, COL_SNS))))

\* card c of row r shows the stored icon first
ShowsCached(c, r) ==
    (/\ Strip(OrEmpty(Get(r, COL_ICON))) = <<>>
     /\ FetcherHandle(r) # <<>>
     /\ IconPath(FetcherHandle(r)) \in DOMAIN files)
    => /\ c.sources # <<>>
       /\ c.sources[1] = DOCS_REF \o FetcherHandle(r) \o <<".","j","p","g">>
                                  \o <<"?","v","=">> \o MTIME
       /\ FetcherHandle(r) \o <<".","j","p","g">> \in docsIcons

\* C10: for every row without an explicit icon for which the fetcher
\* stored assets/icons/h.jpg under its X or Instagram handle h, the
\* publisher derives the same h and the stored icon is the first source of
\* the card.
C10_SameHandle ==
    (pPc = "exit" /\ pExit = 0) =>
        \A p \in 1..Len(outHtml.cards) :
            ShowsCached(outHtml.cards[p], pub_rows[outHtml.cards[p].idx])

====
